---- MODULE Spec2Model ----
(***************************************************************************)
(* A model of cc-docker-demo: the credential resolver (lib/common.mjs),    *)
(* the Fly.io ephemeral-machine runner (mode-fly.mjs), the container and   *)
(* sandbox runners (mode-docker.mjs, mode-sandbox.mjs) and the run-demo    *)
(* coordinator (run-demo.mjs).                                             *)
(*                                                                         *)
(* One node process is modelled at a time.  External programs (security,   *)
(* claude, docker, fly) are the environment: their results are chosen      *)
(* nondeterministically, their invocations are logged in `invocations`.    *)
(***************************************************************************)
EXTENDS Integers, Sequences, FiniteSets, TLC

VARIABLES
    \* ---- host credential sources and clock --------------------------------
    env,          \* process.env.CLAUDE_CODE_OAUTH_TOKEN ("" when unset)
    darwin,       \* process.platform === 'darwin'
    keychain,     \* the "Claude Code-credentials" Keychain blob (claudeAiOauth)
    credFile,     \* ~/.claude/.credentials.json (claudeAiOauth)
    now,          \* Date.now(), in milliseconds
    \* ---- resolveToken ------------------------------------------------------
    tokPc,        \* position inside resolveToken / autoRenewIfNeeded
    tokResult,    \* the credential resolveToken returned, or rejected as expired
    exitReason,   \* which process.exit(1) path was taken ("" while running)
    reads,        \* the credential sources consulted so far, in order
    renewOutcome, \* what autoRenewIfNeeded did
    keychain0,    \* the Keychain blob when resolveToken was called
    credFile0,    \* the credentials file when resolveToken was called
    \* ---- external commands --------------------------------------------------
    invocations,  \* the backend commands issued so far, in order
    \* ---- runModeFly ---------------------------------------------------------
    app,          \* getFlyConfig().app is set
    buildOpt,     \* options.build
    imageRef,     \* .fly-image-ref holds an image ref
    flyPc,        \* position inside runModeFly
    logProc,      \* the `fly logs` child: "none", "open" or "killed"
    launch,       \* what the `fly machine run` child is going to do
    machineId,    \* the parsed Machine ID ("" while null)
    exitSignaled, \* resolveExit() has been called (machineExited is resolved)
    signalChunk,  \* the log chunk on which resolveExit() was first called
    markerSeen,   \* a chunk naming the launched machine and holding the
                  \* termination phrase arrived between launch and end of wait
    chunksSeen,   \* the number of log chunks delivered
    signalCount,  \* the number of calls of resolveExit()
    stdoutChunk,  \* the log chunk last written to process.stdout
    resultCode,   \* result.code of the launch call (-1 before it closed)
    waitEndedBy,  \* which side of the Promise.race ended the wait
    startTime,    \* Date.now() taken before the launch
    flyResult,    \* the record runModeFly returned
    verdict,      \* the final line runModeFly printed
    \* ---- run-demo main ------------------------------------------------------
    mode,         \* opts.mode
    runtime,      \* opts.runtime
    runtimes,     \* what detectRuntimes() reported
    runDocker,    \* main's runDocker
    runSandbox,   \* main's runSandbox
    mainPc,       \* position inside main
    results,      \* main's results array
    \* ---- runModeDocker ------------------------------------------------------
    imageExists,  \* the image cpm-runner:demo exists in the runtime
    dockerPc,     \* position inside runModeDocker
    dockerResult, \* the record runModeDocker returned
    dockerProc,   \* the container process runModeDocker spawned
    dockerStart,  \* runModeDocker's startTime
    \* ---- runModeSandbox -----------------------------------------------------
    sandboxes,    \* the names `docker sandbox ls` lists
    sandboxPc,    \* position inside runModeSandbox
    sandboxResult,\* the record runModeSandbox returned
    sandboxProc,  \* the task process runModeSandbox spawned
    sandboxStart, \* runModeSandbox's startTime
    sbxCreds,     \* ~/.claude/.credentials.json inside the persistent sandbox
    sbxOnboarded  \* ~/.claude.json inside the persistent sandbox is written

tokVars == <<env, darwin, keychain, credFile, now, tokPc, tokResult,
             exitReason, reads, renewOutcome, keychain0, credFile0>>

flyVars == <<app, buildOpt, imageRef, flyPc, logProc, launch, machineId,
             exitSignaled, signalChunk, markerSeen, chunksSeen, signalCount,
                   stdoutChunk,
             resultCode,
             waitEndedBy, startTime, flyResult, verdict>>

mainVars == <<mode, runtime, runtimes, runDocker, runSandbox, mainPc, results>>

dockerVars == <<imageExists, dockerPc, dockerResult, dockerProc, dockerStart>>

sandboxVars == <<sandboxes, sandboxPc, sandboxResult, sandboxProc, sandboxStart,
                 sbxCreds, sbxOnboarded>>

demoVars == <<mainVars, dockerVars, sandboxVars>>

\* Everything resolveToken leaves alone.
callerVars == <<invocations, flyVars, demoVars>>

vars == <<tokVars, invocations, flyVars, demoVars>>

\* An external backend command, and the mode that issued it.
Cmd(by, cmd) == [by |-> by, cmd |-> cmd]

(***************************************************************************)
(* Time.  All instants are milliseconds, as Date.now() and expiresAt are.  *)
(***************************************************************************)
MsPerHour == 3600000
AUTO_RENEW_THRESHOLD_HOURS == 2
RenewTimeoutMs == 30000
TokenLifetimeHours == 29

\* The instant at which the modelled process starts.
StartTime == 10 * MsPerHour

\* expiresAt - StartTime of the credentials found in the stores: an hour
\* ago, now, just below and at the rounding step of toFixed(1), just below,
\* at and above the renewal threshold.
ExpiryOffsets ==
    { -MsPerHour, 0, 179999, 180000,
      AUTO_RENEW_THRESHOLD_HOURS * MsPerHour - 1,
      AUTO_RENEW_THRESHOLD_HOURS * MsPerHour,
      AUTO_RENEW_THRESHOLD_HOURS * MsPerHour + 1 }

\* The expiry offsets of the hosts on which whole runs are explored: an
\* expired credential and one above the renewal threshold.
RunOffsets == { 0, AUTO_RENEW_THRESHOLD_HOURS * MsPerHour + 1 }

\* How long the `claude -p "hi"` renewal may take (execSync timeout: 30 s).
RenewElapsed == { 0, 1, RenewTimeoutMs }

\* A claudeAiOauth object.  accessToken "" stands for a missing entry, a
\* blob that does not parse, or a blob without accessToken; hasExpiry FALSE
\* for a blob without expiresAt (undefined in JavaScript).
Cred(tok, has, exp) == [accessToken |-> tok, hasExpiry |-> has, expiresAt |-> exp]
NoCred == Cred("", FALSE, 0)

\* What a store may hold: nothing, or a credential expiring at one of the
\* offsets; with `partial`, also blobs lacking the token or the expiry.
StoreContents(tok, offsets, partial) ==
    { NoCred } \cup { Cred(tok, TRUE, StartTime + d) : d \in offsets }
        \cup IF partial
             THEN { Cred("", TRUE, StartTime + d) : d \in offsets }
                      \cup { Cred(tok, FALSE, 0) }
             ELSE {}

\* Number.prototype.toFixed(1) of ms / 3600000, as the number of tenths the
\* printed decimal denotes ("-0.0" and "0.0" both denote 0).  The nearest
\* tenth; the tie at 0.05 (180000 ms) rounds away from zero, as the double
\* nearest to 0.05 lies above it.
toFixed1(ms) ==
    IF ms >= 0
    THEN (ms * 10 + MsPerHour \div 2) \div MsPerHour
    ELSE -(((-ms) * 10 + MsPerHour \div 2) \div MsPerHour)

\* A checkExpiry that rejects only what lies strictly in the past.
checkExpiryExitsStrict(cred, t) ==
    cred.hasExpiry /\ toFixed1(cred.expiresAt - t) < 0

\* checkExpiry(expiresAt, source): TRUE when it calls process.exit(1).
\* hoursLeft is the toFixed(1) string; `hoursLeft <= 0` compares its number.
\* A missing expiresAt gives "NaN", and "NaN" <= 0 is false.
checkExpiryExits(cred, t) ==
    cred.hasExpiry /\ toFixed1(cred.expiresAt - t) <= 0

\* JavaScript truthiness of cred.expiresAt: `if (expiresAt) return expiresAt`.
truthyExpiry(cred) == cred.hasExpiry /\ cred.expiresAt # 0

\* One consultation of a credential source: by which function, which
\* source, the accessToken it yielded and whether it yielded an expiresAt.
Read(fn, src, cred) ==
    [fn |-> fn, src |-> src, token |-> cred.accessToken, expiry |-> truthyExpiry(cred)]
ReadEnv(fn) == [fn |-> fn, src |-> "env", token |-> env, expiry |-> FALSE]

\* getTokenExpiry(): the Keychain's expiresAt on macOS when it has one, else
\* the credentials file's, else null.  `reads` are the stores it opened.
getTokenExpiry ==
    IF darwin /\ truthyExpiry(keychain)
    THEN [found |-> TRUE, expiresAt |-> keychain.expiresAt,
          reads |-> <<Read("getTokenExpiry", "keychain", keychain)>>]
    ELSE LET pre == IF darwin
                    THEN <<Read("getTokenExpiry", "keychain", keychain)>>
                    ELSE <<>>
             rds == Append(pre, Read("getTokenExpiry", "file", credFile))
         IN  IF truthyExpiry(credFile)
             THEN [found |-> TRUE, expiresAt |-> credFile.expiresAt, reads |-> rds]
             ELSE [found |-> FALSE, expiresAt |-> 0, reads |-> rds]

\* A threshold test that also skips the renewal at exactly the threshold.
aboveRenewThresholdInclusive(expiresAt, t) ==
    expiresAt - t >= AUTO_RENEW_THRESHOLD_HOURS * MsPerHour

\* hoursLeft > AUTO_RENEW_THRESHOLD_HOURS, on the unrounded quotient.
aboveRenewThreshold(expiresAt, t) ==
    expiresAt - t > AUTO_RENEW_THRESHOLD_HOURS * MsPerHour

\* What a successful `claude -p "hi"` may leave in the store it owns (the
\* Keychain on macOS, the file elsewhere): the store as it was, or a renewed
\* credential.
RenewedStores(t) ==
    LET fresh == Cred("tokRenewed", TRUE, t + TokenLifetimeHours * MsPerHour)
    IN  { <<keychain, credFile>>,
          IF darwin THEN <<fresh, credFile>> ELSE <<keychain, fresh>> }

\* An auto-renew that does not look at the override.
overrideIgnored == FALSE

\* `if (process.env.CLAUDE_CODE_OAUTH_TOKEN) return;`, line 69.
overrideSet == env # ""

\* execSync('claude -p "hi" --output-format text --max-turns 1'), line 81.
RenewCmd == Cmd("resolveToken", "claude -p hi")

\* autoRenewIfNeeded(), lines 68-93.
AutoRenewIfNeeded ==
    /\ tokPc = "autoRenew"
    /\ UNCHANGED <<env, darwin, tokResult, keychain0, credFile0>>
    /\ UNCHANGED <<flyVars, demoVars>>
    /\ IF overrideSet
       THEN /\ reads' = Append(reads, ReadEnv("autoRenewIfNeeded"))
            /\ renewOutcome' = "skipped_env"
            /\ tokPc' = "resolve"
            /\ UNCHANGED <<keychain, credFile, now, exitReason>>
       ELSE LET te == getTokenExpiry
                rds == reads \o <<ReadEnv("autoRenewIfNeeded")>>
                             \o te.reads
            IN  /\ reads' = rds
                /\ IF ~te.found
                   THEN /\ renewOutcome' = "skipped_none"
                        /\ tokPc' = "resolve"
                        /\ UNCHANGED <<keychain, credFile, now, exitReason>>
                   ELSE IF aboveRenewThreshold(te.expiresAt, now)
                   THEN /\ renewOutcome' = "skipped_fresh"
                        /\ tokPc' = "resolve"
                        /\ UNCHANGED <<keychain, credFile, now, exitReason>>
                   ELSE \E dt \in RenewElapsed :
                        /\ now' = now + dt
                        /\ \/ \E st \in RenewedStores(now + dt) :
                                /\ keychain' = st[1]
                                /\ credFile' = st[2]
                                /\ renewOutcome' = "ok"
                                /\ tokPc' = "resolve"
                                /\ exitReason' = exitReason
                           \/ /\ UNCHANGED <<keychain, credFile>>
                              /\ renewOutcome' = "failed"
                              /\ IF te.expiresAt - now <= 0
                                 THEN tokPc' = "exited" /\ exitReason' = "renew_failed"
                                 ELSE tokPc' = "resolve" /\ exitReason' = exitReason
    /\ invocations' = IF renewOutcome' \in {"ok", "failed"}
                      THEN Append(invocations, RenewCmd)
                      ELSE invocations

\* The credential resolveToken settled on: the one it returned, or the one
\* checkExpiry rejected (token "").
Returned(src, tok, cred) ==
    [token |-> tok, source |-> src, hasExpiry |-> cred.hasExpiry,
     expiresAt |-> cred.expiresAt]
Rejected(src, cred) == Returned(src, "", cred)
NoResult == Returned("", "", NoCred)

\* A fallback that skips an expired Keychain credential and goes on to the
\* credentials file.
resolveStepsSkipExpired ==
    LET e == ReadEnv("resolveToken")
        k == Read("resolveToken", "keychain", keychain)
        f == Read("resolveToken", "file", credFile)
        viaK == IF darwin THEN <<e, k>> ELSE <<e>>
    IN  IF env # ""
        THEN [pc |-> "returned", why |-> "", res |-> Returned("env", env, NoCred),
              reads |-> <<e>>]
        ELSE IF darwin /\ keychain.accessToken # ""
                /\ ~checkExpiryExits(keychain, now)
        THEN [pc |-> "returned", why |-> "",
              res |-> Returned("keychain", keychain.accessToken, keychain),
              reads |-> viaK]
        ELSE IF credFile.accessToken # "" /\ ~checkExpiryExits(credFile, now)
        THEN [pc |-> "returned", why |-> "",
              res |-> Returned("file", credFile.accessToken, credFile),
              reads |-> Append(viaK, f)]
        ELSE [pc |-> "exited", why |-> "no_token", res |-> NoResult,
              reads |-> Append(viaK, f)]

\* A fallback that prefers the credentials file to the Keychain.
resolveStepsFileFirst ==
    LET e == ReadEnv("resolveToken")
        k == Read("resolveToken", "keychain", keychain)
        f == Read("resolveToken", "file", credFile)
    IN  IF env # ""
        THEN [pc |-> "returned", why |-> "", res |-> Returned("env", env, NoCred),
              reads |-> <<e>>]
        ELSE IF credFile.accessToken # ""
        THEN IF checkExpiryExits(credFile, now)
             THEN [pc |-> "exited", why |-> "expired",
                   res |-> Rejected("file", credFile), reads |-> <<e, f>>]
             ELSE [pc |-> "returned", why |-> "",
                   res |-> Returned("file", credFile.accessToken, credFile),
                   reads |-> <<e, f>>]
        ELSE IF darwin /\ keychain.accessToken # ""
        THEN IF checkExpiryExits(keychain, now)
             THEN [pc |-> "exited", why |-> "expired",
                   res |-> Rejected("keychain", keychain), reads |-> <<e, f, k>>]
             ELSE [pc |-> "returned", why |-> "",
                   res |-> Returned("keychain", keychain.accessToken, keychain),
                   reads |-> <<e, f, k>>]
        ELSE [pc |-> "exited", why |-> "no_token", res |-> NoResult,
              reads |-> <<e, f>>]

\* The three-step fallback of resolveToken(), lines 98-145, after the
\* auto-renew: the outcome and the sources it read.
resolveSteps ==
    LET e == ReadEnv("resolveToken")
        k == Read("resolveToken", "keychain", keychain)
        f == Read("resolveToken", "file", credFile)
        viaK == IF darwin THEN <<e, k>> ELSE <<e>>
    IN  IF env # ""
        THEN [pc |-> "returned", why |-> "", res |-> Returned("env", env, NoCred),
              reads |-> <<e>>]
        ELSE IF darwin /\ keychain.accessToken # ""
        THEN IF checkExpiryExits(keychain, now)
             THEN [pc |-> "exited", why |-> "expired",
                   res |-> Rejected("keychain", keychain), reads |-> viaK]
             ELSE [pc |-> "returned", why |-> "",
                   res |-> Returned("keychain", keychain.accessToken, keychain),
                   reads |-> viaK]
        ELSE IF credFile.accessToken # ""
        THEN IF checkExpiryExits(credFile, now)
             THEN [pc |-> "exited", why |-> "expired",
                   res |-> Rejected("file", credFile), reads |-> Append(viaK, f)]
             ELSE [pc |-> "returned", why |-> "",
                   res |-> Returned("file", credFile.accessToken, credFile),
                   reads |-> Append(viaK, f)]
        ELSE [pc |-> "exited", why |-> "no_token", res |-> NoResult,
              reads |-> Append(viaK, f)]

\* resolveToken(), lines 95-146, from the return of autoRenewIfNeeded().
ResolveToken ==
    /\ tokPc = "resolve"
    /\ LET r == resolveSteps
       IN  /\ tokPc' = r.pc
           /\ exitReason' = r.why
           /\ tokResult' = r.res
           /\ reads' = reads \o r.reads
    /\ UNCHANGED <<env, darwin, keychain, credFile, now, renewOutcome,
                   keychain0, credFile0>>
    /\ UNCHANGED callerVars

\* resolveToken() of src/lib/common.mjs: the override, then the credentials
\* file alone; no Keychain, no renewal.
legacySteps ==
    LET e == ReadEnv("resolveToken")
        f == Read("resolveToken", "file", credFile)
    IN  IF env # ""
        THEN [pc |-> "returned", why |-> "", res |-> Returned("env", env, NoCred),
              reads |-> <<e>>]
        ELSE IF credFile.accessToken = ""
        THEN [pc |-> "exited", why |-> "no_token", res |-> NoResult, reads |-> <<e, f>>]
        ELSE IF checkExpiryExits(credFile, now)
        THEN [pc |-> "exited", why |-> "expired",
              res |-> Rejected("file", credFile), reads |-> <<e, f>>]
        ELSE [pc |-> "returned", why |-> "",
              res |-> Returned("file", credFile.accessToken, credFile),
              reads |-> <<e, f>>]

ResolveTokenLegacy ==
    /\ tokPc = "legacy"
    /\ LET r == legacySteps
       IN  /\ tokPc' = r.pc
           /\ exitReason' = r.why
           /\ tokResult' = r.res
           /\ reads' = reads \o r.reads
    /\ UNCHANGED <<env, darwin, keychain, credFile, now, renewOutcome,
                   keychain0, credFile0>>
    /\ UNCHANGED callerVars

(***************************************************************************)
(* runModeFly (mode-fly.mjs).                                              *)
(***************************************************************************)
ConnectDelayMs == 1500
WaitTimeoutMs == 300000
FlushDelayMs == 2000

\* The most log chunks one run receives, and the most lines in one chunk.
MaxChunks == 2
MaxChunkLines == 2

\* The id of the machine this run launches, and of a machine of another run
\* whose lines share the app's log channel.
LaunchedId == "m1"
OtherId == "m0"

\* A log line: the `runner[<id>]` reference it contains and whether it
\* contains the phrase 'machine restart policy'.
LogLines == [runner : {LaunchedId, OtherId}, phrase : BOOLEAN]

\* A chunk of the `fly logs` stdout, as one 'data' event delivers it: the
\* kinds of line it holds (their order and repetition do not matter to
\* String.prototype.includes).
Chunks == { c \in SUBSET LogLines : Cardinality(c) \in 1..MaxChunkLines }
NoChunk == {}

\* chunk.toString().includes(`runner[${id}]`)
includesRunner(chunk, id) == \E line \in chunk : line.runner = id
\* chunk.toString().includes('machine restart policy')
includesPhrase(chunk) == \E line \in chunk : line.phrase

\* The condition under which the log handler calls resolveExit(), line 158.
exitDetected(chunk) ==
    /\ machineId # ""
    /\ includesRunner(chunk, machineId)
    /\ includesPhrase(chunk)

\* What `fly machine run` may do: start the machine and print its id (then
\* close with some code), fail without a machine, or fail to spawn.
LaunchOutcomes ==
    { [kind |-> "started", code |-> 0], [kind |-> "started", code |-> 1],
      [kind |-> "failed", code |-> 1], [kind |-> "error", code |-> 1] }
NoLaunch == [kind |-> "none", code |-> 0]

NoElapsed == 0 - 1

\* ((Date.now() - startTime) / 1000).toFixed(1): the seconds with one
\* decimal, held as the number of tenths of a second, halves rounded up.
elapsedSeconds(ms) == (ms + 50) \div 100
FlyReturn(code, elapsed) == [mode |-> "fly", exitCode |-> code, elapsed |-> elapsed]
NoFlyResult == [mode |-> "", exitCode |-> 0, elapsed |-> NoElapsed]

\* Lines 99-109: config validation and the branch on options.build.
FlyValidate ==
    /\ flyPc = "start"
    /\ IF ~app
       THEN flyPc' = "returned" /\ flyResult' = FlyReturn(1, NoElapsed)
       ELSE flyPc' = (IF buildOpt THEN "build" ELSE "imageRef") /\ flyResult' = flyResult
    /\ UNCHANGED <<app, buildOpt, imageRef, logProc, launch, machineId,
                   exitSignaled, signalChunk, markerSeen, chunksSeen, signalCount,
                   stdoutChunk,
                   resultCode,
                   waitEndedBy, startTime, verdict>>
    /\ UNCHANGED <<tokVars, invocations, demoVars>>

\* buildFlyImage(app), lines 62-81: docker build, fly auth docker, docker
\* push; the first one that fails throws, and runModeFly rejects.
FlyBuild ==
    /\ flyPc = "build"
    /\ \E failAt \in 0..3 :
         LET cmds == << Cmd("fly", "docker build"), Cmd("fly", "fly auth docker"),
                        Cmd("fly", "docker push") >>
             issued == IF failAt = 0 THEN cmds ELSE SubSeq(cmds, 1, failAt)
         IN  /\ invocations' = invocations \o issued
             /\ IF failAt = 0
                THEN flyPc' = "imageRef" /\ imageRef' = TRUE
                ELSE flyPc' = "rejected" /\ imageRef' = imageRef
    /\ UNCHANGED <<app, buildOpt, logProc, launch, machineId,
                   exitSignaled, signalChunk, markerSeen, chunksSeen, signalCount,
                   stdoutChunk,
                   resultCode,
                   waitEndedBy, startTime, flyResult, verdict>>
    /\ UNCHANGED <<tokVars, demoVars>>

\* A run that goes on to resolveToken() without looking at the image ref.
FlyImageRefUnchecked ==
    /\ flyPc = "imageRef"
    /\ flyPc' = "token"
    /\ tokPc' = "autoRenew"
    /\ UNCHANGED <<app, buildOpt, imageRef, logProc, launch, machineId,
                   exitSignaled, signalChunk, markerSeen, chunksSeen, signalCount,
                   stdoutChunk,
                   resultCode,
                   waitEndedBy, startTime, flyResult, verdict>>
    /\ UNCHANGED <<env, darwin, keychain, credFile, now, tokResult, exitReason,
                   reads, renewOutcome, keychain0, credFile0, invocations, demoVars>>

\* Lines 111-120: the saved image ref, then the call of resolveToken().
FlyImageRef ==
    /\ flyPc = "imageRef"
    /\ IF ~imageRef
       THEN /\ flyPc' = "returned"
            /\ flyResult' = FlyReturn(1, NoElapsed)
            /\ tokPc' = tokPc
       ELSE /\ flyPc' = "token"
            /\ flyResult' = flyResult
            /\ tokPc' = "autoRenew"
    /\ UNCHANGED <<app, buildOpt, imageRef, logProc, launch, machineId,
                   exitSignaled, signalChunk, markerSeen, chunksSeen, signalCount,
                   stdoutChunk,
                   resultCode,
                   waitEndedBy, startTime, verdict>>
    /\ UNCHANGED <<env, darwin, keychain, credFile, now, tokResult, exitReason,
                   reads, renewOutcome, keychain0, credFile0, invocations, demoVars>>

\* A run that goes on to the launch without spawning `fly logs`.
FlySubscribeSkipped ==
    /\ flyPc = "token"
    /\ tokPc = "returned"
    /\ flyPc' = "connectWait"
    /\ UNCHANGED <<app, buildOpt, imageRef, logProc, launch, machineId,
                   exitSignaled, signalChunk, markerSeen, chunksSeen, signalCount,
                   stdoutChunk,
                   resultCode,
                   waitEndedBy, startTime, flyResult, verdict>>
    /\ UNCHANGED <<tokVars, invocations, demoVars>>

\* Lines 154-165: resolveToken() has returned; spawn `fly logs` and register
\* its stdout handler, then wait 1.5 s for it to connect.
FlySubscribe ==
    /\ flyPc = "token"
    /\ tokPc = "returned"
    /\ invocations' = Append(invocations, Cmd("fly", "fly logs"))
    /\ logProc' = "open"
    /\ flyPc' = "connectWait"
    /\ UNCHANGED <<app, buildOpt, imageRef, launch, machineId,
                   exitSignaled, signalChunk, markerSeen, chunksSeen, signalCount,
                   stdoutChunk,
                   resultCode,
                   waitEndedBy, startTime, flyResult, verdict>>
    /\ UNCHANGED <<tokVars, demoVars>>

\* A run that takes startTime before the 1.5 s connect delay.
FlyLaunchEarlyStart ==
    /\ flyPc = "connectWait"
    /\ now' = now + ConnectDelayMs
    /\ startTime' = now
    /\ invocations' = Append(invocations, Cmd("fly", "fly machine run"))
    /\ launch' \in LaunchOutcomes
    /\ flyPc' = "launching"
    /\ UNCHANGED <<app, buildOpt, imageRef, logProc, machineId,
                   exitSignaled, signalChunk, markerSeen, chunksSeen, signalCount,
                   stdoutChunk,
                   resultCode, waitEndedBy, flyResult, verdict>>
    /\ UNCHANGED <<env, darwin, keychain, credFile, tokPc, tokResult, exitReason,
                   reads, renewOutcome, keychain0, credFile0, demoVars>>

\* Lines 165-171: the 1.5 s timer fires; take startTime and spawn
\* `fly machine run`.
FlyLaunch ==
    /\ flyPc = "connectWait"
    /\ now' = now + ConnectDelayMs
    /\ startTime' = now'
    /\ invocations' = Append(invocations, Cmd("fly", "fly machine run"))
    /\ launch' \in LaunchOutcomes
    /\ flyPc' = "launching"
    /\ UNCHANGED <<app, buildOpt, imageRef, logProc, machineId,
                   exitSignaled, signalChunk, markerSeen, chunksSeen, signalCount,
                   stdoutChunk,
                   resultCode,
                   waitEndedBy, flyResult, verdict>>
    /\ UNCHANGED <<env, darwin, keychain, credFile, tokPc, tokResult, exitReason,
                   reads, renewOutcome, keychain0, credFile0, demoVars>>

\* A promise whose every resolve() call replaces what it was settled with.
settleLast(settled, current, value) == value

\* resolveExit() on the promise machineExited, lines 152 and 159: the first call
\* settles it, later calls change nothing.
settle(settled, current, value) == IF settled THEN current ELSE value

\* Lines 155-162: a 'data' event on the `fly logs` stdout.  Lines of the
\* launched machine exist only once it has been started.
LogData ==
    /\ logProc = "open"
    /\ flyPc \in {"connectWait", "launching", "waiting", "flushing"}
    /\ chunksSeen < MaxChunks
    /\ \E chunk \in Chunks :
         /\ includesRunner(chunk, LaunchedId) => launch.kind = "started"
         /\ stdoutChunk' = chunk
         /\ chunksSeen' = chunksSeen + 1
         /\ IF exitDetected(chunk)
            THEN /\ exitSignaled' = TRUE
                 /\ signalChunk' = settle(exitSignaled, signalChunk, chunk)
                 /\ signalCount' = signalCount + 1
            ELSE UNCHANGED <<exitSignaled, signalChunk, signalCount>>
         /\ markerSeen' =
              (markerSeen \/ ( /\ flyPc \in {"launching", "waiting"}
                               /\ includesRunner(chunk, LaunchedId)
                               /\ includesPhrase(chunk) ))
    /\ UNCHANGED <<app, buildOpt, imageRef, flyPc, logProc, launch, machineId,
                   resultCode, waitEndedBy, startTime, flyResult, verdict>>
    /\ UNCHANGED <<tokVars, invocations, demoVars>>

\* Lines 173-176: the launch call prints 'Machine ID: <id>' on its stdout.
LaunchStdout ==
    /\ flyPc = "launching"
    /\ launch.kind = "started"
    /\ machineId = ""
    /\ machineId' = LaunchedId
    /\ UNCHANGED <<app, buildOpt, imageRef, flyPc, logProc, launch,
                   exitSignaled, signalChunk, markerSeen, chunksSeen, signalCount,
                   stdoutChunk,
                   resultCode,
                   waitEndedBy, startTime, flyResult, verdict>>
    /\ UNCHANGED <<tokVars, invocations, demoVars>>

\* Line 178: the launch call closes (its stdout has ended before); the
\* awaited promise resolves with its code and the wait phase begins.
LaunchClose ==
    /\ flyPc = "launching"
    /\ \/ launch.kind = "started" /\ machineId # ""
       \/ launch.kind = "failed"
    /\ resultCode' = launch.code
    /\ flyPc' = "waiting"
    /\ UNCHANGED <<app, buildOpt, imageRef, logProc, launch, machineId,
                   exitSignaled, signalChunk, markerSeen, chunksSeen, signalCount,
                   stdoutChunk,
                   waitEndedBy, startTime, flyResult, verdict>>
    /\ UNCHANGED <<tokVars, invocations, demoVars>>

\* Line 179: the spawn raises 'error'; the awaited promise rejects and
\* runModeFly rejects with it.
LaunchError ==
    /\ flyPc = "launching"
    /\ launch.kind = "error"
    /\ flyPc' = "rejected"
    /\ UNCHANGED <<app, buildOpt, imageRef, logProc, launch, machineId,
                   exitSignaled, signalChunk, markerSeen, chunksSeen, signalCount,
                   stdoutChunk,
                   resultCode,
                   waitEndedBy, startTime, flyResult, verdict>>
    /\ UNCHANGED <<tokVars, invocations, demoVars>>

\* Line 183, first side of the race: machineExited is resolved.
WaitMatched ==
    /\ flyPc = "waiting"
    /\ exitSignaled
    /\ waitEndedBy' = "marker"
    /\ flyPc' = "flushing"
    /\ UNCHANGED <<app, buildOpt, imageRef, logProc, launch, machineId,
                   exitSignaled, signalChunk, markerSeen, chunksSeen, signalCount,
                   stdoutChunk,
                   resultCode,
                   startTime, flyResult, verdict>>
    /\ UNCHANGED <<tokVars, invocations, demoVars>>

\* A wait on machineExited alone, without the timer: it stays pending.
WaitWithoutTimer ==
    /\ flyPc = "waiting"
    /\ ~exitSignaled
    /\ UNCHANGED vars

\* Line 183, second side of the race: the 5-minute timer fires first.
WaitTimeout ==
    /\ flyPc = "waiting"
    /\ ~exitSignaled
    /\ now' = now + WaitTimeoutMs
    /\ waitEndedBy' = "timer"
    /\ flyPc' = "flushing"
    /\ UNCHANGED <<app, buildOpt, imageRef, logProc, launch, machineId,
                   exitSignaled, signalChunk, markerSeen, chunksSeen, signalCount,
                   stdoutChunk,
                   resultCode,
                   startTime, flyResult, verdict>>
    /\ UNCHANGED <<env, darwin, keychain, credFile, tokPc, tokResult, exitReason,
                   reads, renewOutcome, keychain0, credFile0, invocations, demoVars>>

\* Line 183, while the race is pending: the user interrupts (SIGINT).  No
\* handler is installed anywhere, so the node process ends at once: nothing
\* after line 183 runs.  `fly logs` ends too when the signal went to the
\* whole foreground process group (Ctrl-C), and lives on when it went to the
\* node process alone.
WaitInterrupted ==
    /\ flyPc = "waiting"
    /\ flyPc' = "interrupted"
    /\ logProc' \in {"open", "killed"}
    /\ UNCHANGED <<app, buildOpt, imageRef, launch, machineId,
                   exitSignaled, signalChunk, markerSeen, chunksSeen, signalCount,
                   stdoutChunk,
                   resultCode, waitEndedBy, startTime, flyResult, verdict>>
    /\ UNCHANGED <<tokVars, invocations, demoVars>>

\* Lines 185-198: the 2 s flush timer fires; kill `fly logs`, print the
\* verdict and return.
FlyFinish ==
    /\ flyPc = "flushing"
    /\ now' = now + FlushDelayMs
    /\ logProc' = "killed"
    /\ verdict' = IF resultCode = 0 THEN "completed" ELSE "exited with code"
    /\ flyResult' = FlyReturn(resultCode, elapsedSeconds(now' - startTime))
    /\ flyPc' = "returned"
    /\ UNCHANGED <<app, buildOpt, imageRef, launch, machineId,
                   exitSignaled, signalChunk, markerSeen, chunksSeen, signalCount,
                   stdoutChunk,
                   resultCode,
                   waitEndedBy, startTime>>
    /\ UNCHANGED <<env, darwin, keychain, credFile, tokPc, tokResult, exitReason,
                   reads, renewOutcome, keychain0, credFile0, invocations, demoVars>>

FlyIdle ==
    /\ logProc = "none"
    /\ launch = NoLaunch
    /\ machineId = ""
    /\ exitSignaled = FALSE
    /\ signalChunk = NoChunk
    /\ markerSeen = FALSE
    /\ chunksSeen = 0
    /\ signalCount = 0
    /\ stdoutChunk = NoChunk
    /\ resultCode = 0 - 1
    /\ waitEndedBy = "none"
    /\ startTime = 0
    /\ flyResult = NoFlyResult
    /\ verdict = ""

(***************************************************************************)
(* runModeDocker (mode-docker.mjs).                                        *)
(***************************************************************************)
\* The exit codes and the running times (ms) of a spawned process that
\* started; ChildProcess 'error' stands for one that could not be spawned.
ExitCodes == {0, 1}
RunDurations == {1000, 5000}
ProcOutcomes ==
    [kind : {"exited"}, code : ExitCodes, ms : RunDurations]
        \cup { [kind |-> "error", code |-> 0 - 2, ms |-> 0] }
NoProc == [kind |-> "none", code |-> 0, ms |-> 0]

\* A runModeDocker that reports success whatever the container's exit code.
DockerReturnZero(code, elapsed) ==
    [mode |-> "docker", exitCode |-> 0, elapsed |-> elapsed, error |-> ""]

\* Line 112: return { mode: 'docker', runtime, exitCode: result.code, elapsed,
\* workspace }.
DockerReturn(code, elapsed) ==
    [mode |-> "docker", exitCode |-> code, elapsed |-> elapsed, error |-> ""]
NoRunResult == [mode |-> "", exitCode |-> 0, elapsed |-> NoElapsed, error |-> ""]

\* The runtime binary opts.runtime names is installed.
runtimeInstalled == runtimes[runtime]

\* Lines 35-36: the call of resolveToken().
DockerResolve ==
    /\ dockerPc = "start"
    /\ dockerPc' = "token"
    /\ tokPc' = "autoRenew"
    /\ UNCHANGED <<imageExists, dockerResult, dockerProc, dockerStart>>
    /\ UNCHANGED <<env, darwin, keychain, credFile, now, tokResult, exitReason,
                   reads, renewOutcome, keychain0, credFile0>>
    /\ UNCHANGED <<invocations, flyVars, mainVars, sandboxVars>>

\* ensureImage(runtime), lines 12-21 and 38-39: `image inspect`, and a
\* `build` when it fails; a failing build throws out of runModeDocker.
DockerEnsureImage ==
    /\ dockerPc = "token"
    /\ tokPc = "returned"
    /\ LET inspect == Cmd("docker", "image inspect")
           build == Cmd("docker", "build")
       IN  IF runtimeInstalled /\ imageExists
           THEN /\ invocations' = Append(invocations, inspect)
                /\ dockerPc' = "spawn"
                /\ imageExists' = imageExists
           ELSE /\ invocations' = invocations \o <<inspect, build>>
                /\ \/ /\ runtimeInstalled
                      /\ imageExists' = TRUE
                      /\ dockerPc' = "spawn"
                   \/ /\ imageExists' = imageExists
                      /\ dockerPc' = "rejected"
    /\ UNCHANGED <<dockerResult, dockerProc, dockerStart>>
    /\ UNCHANGED <<tokVars, flyVars, mainVars, sandboxVars>>

\* Lines 41-74: the workspace, startTime, then spawn(runtime, ['run', ...]).
DockerSpawn ==
    /\ dockerPc = "spawn"
    /\ invocations' = Append(invocations, Cmd("docker", "run"))
    /\ dockerStart' = now
    /\ dockerProc' \in ProcOutcomes
    /\ dockerPc' = "running"
    /\ UNCHANGED <<imageExists, dockerResult>>
    /\ UNCHANGED <<tokVars, flyVars, mainVars, sandboxVars>>

\* Lines 90-112: the container process closes; take the elapsed time, report
\* and return.
DockerClose ==
    /\ dockerPc = "running"
    /\ dockerProc.kind = "exited"
    /\ now' = now + dockerProc.ms
    /\ dockerResult' = DockerReturn(dockerProc.code, elapsedSeconds(now' - dockerStart))
    /\ dockerPc' = "returned"
    /\ UNCHANGED <<imageExists, dockerProc, dockerStart>>
    /\ UNCHANGED <<env, darwin, keychain, credFile, tokPc, tokResult, exitReason,
                   reads, renewOutcome, keychain0, credFile0>>
    /\ UNCHANGED <<invocations, flyVars, mainVars, sandboxVars>>

\* Line 91: the spawn raises 'error'; runModeDocker rejects.
DockerError ==
    /\ dockerPc = "running"
    /\ dockerProc.kind = "error"
    /\ dockerPc' = "rejected"
    /\ UNCHANGED <<imageExists, dockerResult, dockerProc, dockerStart>>
    /\ UNCHANGED <<tokVars, invocations, flyVars, mainVars, sandboxVars>>

(***************************************************************************)
(* runModeSandbox (mode-sandbox.mjs).                                      *)
(***************************************************************************)
SANDBOX_NAME == "cpm-demo-persistent"

\* The sandbox names a host may hold; the second contains SANDBOX_NAME.
SandboxNames == { SANDBOX_NAME, "cpm-demo-persistent-2", "other" }

\* line.includes(SANDBOX_NAME), for a `docker sandbox ls` line of sandbox n.
lineIncludesName(n) == n \in { SANDBOX_NAME, "cpm-demo-persistent-2" }

\* A listing that never shows the persistent sandbox.
sandboxNeverListed == FALSE

\* sandboxExists(), lines 49-56.
sandboxExists == \E n \in sandboxes : lineIncludesName(n)

\* readHostCredentials(), lines 58-87: the Keychain blob on macOS when it
\* has an accessToken, else the credentials file's, else it throws.
readHostCredentials ==
    IF darwin /\ keychain.accessToken # ""
    THEN [found |-> TRUE, creds |-> keychain]
    ELSE IF credFile.accessToken # ""
    THEN [found |-> TRUE, creds |-> credFile]
    ELSE [found |-> FALSE, creds |-> NoCred]

\* Lines 164, 172 and 252: the records runModeSandbox returns.
SandboxReturn(code, err) ==
    [mode |-> "sandbox", exitCode |-> code, elapsed |-> NoElapsed, error |-> err]
SandboxCompleted(code, elapsed) ==
    [mode |-> "sandbox", exitCode |-> code, elapsed |-> elapsed, error |-> ""]

\* Lines 162-165: checkSandboxAvailable(), `docker sandbox version`.
SandboxCheckAvailable ==
    /\ sandboxPc = "start"
    /\ invocations' = Append(invocations, Cmd("sandbox", "sandbox version"))
    /\ IF runtimes["sandbox"]
       THEN sandboxPc' = "ensure" /\ sandboxResult' = sandboxResult
       ELSE /\ sandboxPc' = "returned"
            /\ sandboxResult' = SandboxReturn(1, "Docker Sandbox not available")
    /\ UNCHANGED <<sandboxes, sandboxProc, sandboxStart, sbxCreds, sbxOnboarded>>
    /\ UNCHANGED <<tokVars, flyVars, mainVars, dockerVars>>

\* An injection that does not test the status of the second write.
injectErrorFirstWriteOnly(found, r1Ok, r2Ok) ==
    IF ~found THEN "No Claude credentials found"
    ELSE IF ~r1Ok THEN "Failed to inject credentials"
    ELSE ""

\* injectCredentials(), lines 89-114: the message of the error it throws, or
\* "" when both writes succeeded.
injectError(found, r1Ok, r2Ok) ==
    IF ~found THEN "No Claude credentials found"
    ELSE IF ~r1Ok THEN "Failed to inject credentials"
    ELSE IF ~r2Ok THEN "Failed to write ~/.claude.json"
    ELSE ""

\* ensureSandboxReady(), lines 116-140 and 167-173, with injectCredentials(),
\* lines 89-114: list, create when absent, read the host credentials, write
\* them and the onboarding marker.  Whatever throws ends the run with
\* exitCode 1.  `docker sandbox exec` succeeds only in a sandbox that exists.
SandboxEnsureReady ==
    /\ sandboxPc = "ensure"
    /\ \E createOk, r1Ok, r2Ok \in BOOLEAN :
         LET ls == Cmd("sandbox", "sandbox ls")
             create == Cmd("sandbox", "sandbox run --name")
             exec1 == Cmd("sandbox", "sandbox exec credentials")
             exec2 == Cmd("sandbox", "sandbox exec onboarding")
             exists == sandboxExists
             host == readHostCredentials
             created == ~exists /\ createOk
             createFailed == ~exists /\ ~createOk
             upTo == IF exists THEN <<ls>> ELSE <<ls, create>>
             err == IF createFailed THEN "Failed to create sandbox"
                    ELSE injectError(host.found, r1Ok, r2Ok)
             execs == IF createFailed \/ ~host.found THEN <<>>
                      ELSE IF ~r1Ok THEN <<exec1>>
                      ELSE <<exec1, exec2>>
             wrote1 == ~createFailed /\ host.found /\ r1Ok
         IN  /\ sandboxes' = IF created THEN sandboxes \cup {SANDBOX_NAME}
                             ELSE sandboxes
             /\ r1Ok => SANDBOX_NAME \in sandboxes'
             /\ invocations' = invocations \o upTo \o execs
             /\ sbxCreds' = IF wrote1 THEN host.creds ELSE sbxCreds
             /\ sbxOnboarded' = (sbxOnboarded \/ (wrote1 /\ r2Ok))
             /\ IF err # ""
                THEN /\ sandboxPc' = "returned"
                     /\ sandboxResult' = SandboxReturn(1, err)
                ELSE /\ sandboxPc' = "spawn"
                     /\ sandboxResult' = sandboxResult
    /\ UNCHANGED <<sandboxProc, sandboxStart>>
    /\ UNCHANGED <<tokVars, flyVars, mainVars, dockerVars>>

\* Lines 175-208: the workspace, startTime, then
\* spawn('docker', ['sandbox', 'run', ...]).
SandboxSpawn ==
    /\ sandboxPc = "spawn"
    /\ invocations' = Append(invocations, Cmd("sandbox", "sandbox run task"))
    /\ sandboxStart' = now
    /\ sandboxProc' \in ProcOutcomes
    /\ sandboxPc' = "running"
    /\ UNCHANGED <<sandboxes, sandboxResult, sbxCreds, sbxOnboarded>>
    /\ UNCHANGED <<tokVars, flyVars, mainVars, dockerVars>>

\* Lines 224-252: the task process closes; take the elapsed time, report and
\* return.
SandboxClose ==
    /\ sandboxPc = "running"
    /\ sandboxProc.kind = "exited"
    /\ now' = now + sandboxProc.ms
    /\ sandboxResult' = SandboxCompleted(sandboxProc.code, elapsedSeconds(now' - sandboxStart))
    /\ sandboxPc' = "returned"
    /\ UNCHANGED <<sandboxes, sandboxProc, sandboxStart, sbxCreds, sbxOnboarded>>
    /\ UNCHANGED <<env, darwin, keychain, credFile, tokPc, tokResult, exitReason,
                   reads, renewOutcome, keychain0, credFile0>>
    /\ UNCHANGED <<invocations, flyVars, mainVars, dockerVars>>

\* Line 225: the spawn raises 'error'; runModeSandbox rejects.
SandboxError ==
    /\ sandboxPc = "running"
    /\ sandboxProc.kind = "error"
    /\ sandboxPc' = "rejected"
    /\ UNCHANGED <<sandboxes, sandboxResult, sandboxProc, sandboxStart,
                   sbxCreds, sbxOnboarded>>
    /\ UNCHANGED <<tokVars, invocations, flyVars, mainVars, dockerVars>>

(***************************************************************************)
(* main (run-demo.mjs).                                                    *)
(***************************************************************************)
\* Lines 142-187: which modes to run, and the validation of the runtimes.
\* [exit, runDocker, runSandbox, runtime]
selectModes ==
    LET auto == mode \notin {"docker", "sandbox", "both"}
        rd == IF auto THEN runtimes["docker"] \/ runtimes["podman"]
                      ELSE mode \in {"docker", "both"}
        rs == IF auto THEN runtimes["sandbox"] ELSE mode \in {"sandbox", "both"}
        rt == IF rd /\ runtime = "docker" /\ ~runtimes["docker"] /\ runtimes["podman"]
              THEN "podman" ELSE runtime
    IN  IF auto /\ ~rd /\ ~rs
        THEN [exit |-> TRUE, runDocker |-> rd, runSandbox |-> rs, runtime |-> runtime]
        ELSE IF rd /\ runtime = "podman" /\ ~runtimes["podman"]
        THEN [exit |-> TRUE, runDocker |-> rd, runSandbox |-> rs, runtime |-> runtime]
        ELSE IF rs /\ ~runtimes["sandbox"] /\ ~rd
        THEN [exit |-> TRUE, runDocker |-> rd, runSandbox |-> rs, runtime |-> rt]
        ELSE [exit |-> FALSE, runDocker |-> rd,
              runSandbox |-> rs /\ runtimes["sandbox"], runtime |-> rt]

MainSelect ==
    /\ mainPc = "start"
    /\ LET sel == selectModes
       IN  /\ runDocker' = sel.runDocker
           /\ runSandbox' = sel.runSandbox
           /\ runtime' = sel.runtime
           /\ mainPc' = IF sel.exit THEN "exited" ELSE "modeA"
    /\ UNCHANGED <<mode, runtimes, results>>
    /\ UNCHANGED <<tokVars, invocations, flyVars, dockerVars, sandboxVars>>

\* A main that calls runModeDocker without awaiting it.
MainRunDockerDetached ==
    /\ mainPc = "modeA"
    /\ mainPc' = "modeB"
    /\ dockerPc' = IF runDocker THEN "start" ELSE dockerPc
    /\ UNCHANGED <<mode, runtime, runtimes, runDocker, runSandbox, results>>
    /\ UNCHANGED <<imageExists, dockerResult, dockerProc, dockerStart>>
    /\ UNCHANGED <<tokVars, invocations, flyVars, sandboxVars>>

\* Lines 191-194: `if (runDocker)` and the call of runModeDocker.
MainRunDocker ==
    /\ mainPc = "modeA"
    /\ IF runDocker
       THEN mainPc' = "awaitA" /\ dockerPc' = "start"
       ELSE mainPc' = "modeB" /\ dockerPc' = dockerPc
    /\ UNCHANGED <<mode, runtime, runtimes, runDocker, runSandbox, results>>
    /\ UNCHANGED <<imageExists, dockerResult, dockerProc, dockerStart>>
    /\ UNCHANGED <<tokVars, invocations, flyVars, sandboxVars>>

\* Lines 194-199: runModeDocker settled; push its result, or the record of
\* the catch clause.
MainCollectDocker ==
    /\ mainPc = "awaitA"
    /\ dockerPc \in {"returned", "rejected"}
    /\ results' = Append(results,
                    IF dockerPc = "returned" THEN dockerResult
                    ELSE [mode |-> "docker", exitCode |-> 0 - 1, error |-> "thrown"])
    /\ mainPc' = "modeB"
    /\ UNCHANGED <<mode, runtime, runtimes, runDocker, runSandbox>>
    /\ UNCHANGED <<tokVars, invocations, flyVars, dockerVars, sandboxVars>>

\* Lines 202-212: `if (runSandbox)` and the call of runModeSandbox.
MainRunSandbox ==
    /\ mainPc = "modeB"
    /\ IF runSandbox
       THEN mainPc' = "awaitB" /\ sandboxPc' = "start"
       ELSE mainPc' = "done" /\ sandboxPc' = sandboxPc
    /\ UNCHANGED <<mode, runtime, runtimes, runDocker, runSandbox, results>>
    /\ UNCHANGED <<sandboxes, sandboxResult, sandboxProc, sandboxStart,
                   sbxCreds, sbxOnboarded>>
    /\ UNCHANGED <<tokVars, invocations, flyVars, dockerVars>>

\* Lines 212-232: runModeSandbox settled; push its result, or the record of
\* the catch clause; then the comparison and the summary.
MainCollectSandbox ==
    /\ mainPc = "awaitB"
    /\ sandboxPc \in {"returned", "rejected"}
    /\ results' = Append(results,
                    IF sandboxPc = "returned" THEN sandboxResult
                    ELSE [mode |-> "sandbox", exitCode |-> 0 - 1, error |-> "thrown"])
    /\ mainPc' = "done"
    /\ UNCHANGED <<mode, runtime, runtimes, runDocker, runSandbox>>
    /\ UNCHANGED <<tokVars, invocations, flyVars, dockerVars, sandboxVars>>

DemoIdle ==
    /\ mode = "auto" /\ runtime = "docker"
    /\ runtimes = [docker |-> FALSE, sandbox |-> FALSE, podman |-> FALSE]
    /\ runDocker = FALSE /\ runSandbox = FALSE
    /\ mainPc = "idle"
    /\ results = <<>>
    /\ imageExists = FALSE
    /\ dockerPc = "idle"
    /\ dockerResult = NoRunResult
    /\ dockerProc = NoProc
    /\ dockerStart = 0
    /\ sandboxes = {}
    /\ sandboxPc = "idle"
    /\ sandboxResult = NoRunResult
    /\ sandboxProc = NoProc
    /\ sandboxStart = 0
    /\ sbxCreds = NoCred
    /\ sbxOnboarded = FALSE

(***************************************************************************)
(* Initial states and specifications.                                      *)
(***************************************************************************)
\* The host a run starts on: any override, platform and store contents.
HostInit(offsets, partial) ==
    /\ env \in {"", "tokEnv"}
    /\ darwin \in BOOLEAN
    /\ keychain \in StoreContents("tokKeychain", offsets, partial)
    /\ credFile \in StoreContents("tokFile", offsets, partial)
    /\ (~darwin => keychain = NoCred)
    /\ now = StartTime
    /\ keychain0 = keychain
    /\ credFile0 = credFile

TokenIdle ==
    /\ tokResult = NoResult
    /\ exitReason = ""
    /\ reads = <<>>
    /\ renewOutcome = "none"

\* resolveToken() called on its own.
InitToken ==
    /\ HostInit(ExpiryOffsets, TRUE)
    /\ TokenIdle
    /\ tokPc \in {"autoRenew", "legacy"}
    /\ invocations = <<>>
    /\ app = FALSE /\ buildOpt = FALSE /\ imageRef = FALSE
    /\ flyPc = "idle"
    /\ FlyIdle
    /\ DemoIdle

NextToken ==
    \/ AutoRenewIfNeeded
    \/ ResolveToken
    \/ ResolveTokenLegacy

SpecToken == InitToken /\ [][NextToken]_vars

\* `node mode-fly.mjs [--build]`: runModeFly on any host.
InitFly ==
    /\ HostInit(RunOffsets, FALSE)
    /\ TokenIdle
    /\ tokPc = "idle"
    /\ invocations = <<>>
    /\ app \in BOOLEAN
    /\ buildOpt \in BOOLEAN
    /\ imageRef \in BOOLEAN
    /\ flyPc = "start"
    /\ FlyIdle
    /\ DemoIdle

NextFly ==
    \/ FlyValidate
    \/ FlyBuild
    \/ FlyImageRef
    \/ AutoRenewIfNeeded
    \/ ResolveToken
    \/ FlySubscribe
    \/ FlyLaunch
    \/ LogData
    \/ LaunchStdout
    \/ LaunchClose
    \/ LaunchError
    \/ WaitMatched
    \/ WaitTimeout
    \/ WaitInterrupted
    \/ FlyFinish

SpecFly == InitFly /\ [][NextFly]_vars

\* A run of runModeFly that the user does not interrupt.  The node event
\* loop runs every timer that is due and every promise reaction that is
\* ready: the wait's two sides and the flush timer are weakly fair.
NextFlyRun ==
    \/ FlyValidate
    \/ FlyBuild
    \/ FlyImageRef
    \/ AutoRenewIfNeeded
    \/ ResolveToken
    \/ FlySubscribe
    \/ FlyLaunch
    \/ LogData
    \/ LaunchStdout
    \/ LaunchClose
    \/ LaunchError
    \/ WaitMatched
    \/ WaitTimeout
    \/ FlyFinish

SpecFlyRun ==
    /\ InitFly
    /\ [][NextFlyRun]_vars
    /\ WF_vars(WaitMatched)
    /\ WF_vars(WaitTimeout)
    /\ WF_vars(FlyFinish)

\* `node run-demo.mjs [--mode m] [--runtime r]` on any host.
InitDemo ==
    /\ HostInit(RunOffsets, FALSE)
    /\ TokenIdle
    /\ tokPc = "idle"
    /\ invocations = <<>>
    /\ app = FALSE /\ buildOpt = FALSE /\ imageRef = FALSE
    /\ flyPc = "idle"
    /\ FlyIdle
    /\ mode \in {"docker", "sandbox", "both", "auto"}
    /\ runtime \in {"docker", "podman"}
    /\ runtimes \in [{"docker", "sandbox", "podman"} -> BOOLEAN]
    /\ runDocker = FALSE /\ runSandbox = FALSE
    /\ mainPc = "start"
    /\ results = <<>>
    /\ imageExists \in BOOLEAN
    /\ dockerPc = "idle"
    /\ dockerResult = NoRunResult
    /\ dockerProc = NoProc
    /\ dockerStart = 0
    /\ sandboxes \in { {}, {SANDBOX_NAME}, {"cpm-demo-persistent-2"}, {"other"} }
    /\ (~runtimes["sandbox"] => sandboxes = {})
    /\ sandboxPc = "idle"
    /\ sandboxResult = NoRunResult
    /\ sandboxProc = NoProc
    /\ sandboxStart = 0
    /\ sbxCreds = NoCred
    /\ sbxOnboarded = FALSE

NextDemo ==
    \/ MainSelect
    \/ MainRunDocker
    \/ DockerResolve
    \/ AutoRenewIfNeeded
    \/ ResolveToken
    \/ DockerEnsureImage
    \/ DockerSpawn
    \/ DockerClose
    \/ DockerError
    \/ MainCollectDocker
    \/ MainRunSandbox
    \/ SandboxCheckAvailable
    \/ SandboxEnsureReady
    \/ SandboxSpawn
    \/ SandboxClose
    \/ SandboxError
    \/ MainCollectSandbox

SpecDemo == InitDemo /\ [][NextDemo]_vars

\* The most calls of ensureSandboxReady() on one host.
MaxEnsureCalls == 2

\* The calls of ensureSandboxReady() so far: each starts with one
\* `docker sandbox ls`.
ensureCalls ==
    Cardinality({ i \in DOMAIN invocations :
                    invocations[i] = Cmd("sandbox", "sandbox ls") })

\* runModeSandbox, lines 167-173, run again on the same host: the persistent
\* sandbox outlives the run that created it, and ensureSandboxReady() is
\* called anew.
SandboxEnsureAgain ==
    /\ sandboxPc \in {"spawn", "returned"}
    /\ ensureCalls < MaxEnsureCalls
    /\ sandboxPc' = "ensure"
    /\ sandboxResult' = NoRunResult
    /\ UNCHANGED <<sandboxes, sandboxProc, sandboxStart, sbxCreds, sbxOnboarded>>
    /\ UNCHANGED <<tokVars, invocations, flyVars, mainVars, dockerVars>>

\* ensureSandboxReady() called on a host where Docker Sandbox is available.
InitEnsure ==
    /\ HostInit(RunOffsets, FALSE)
    /\ TokenIdle
    /\ tokPc = "idle"
    /\ invocations = <<>>
    /\ app = FALSE /\ buildOpt = FALSE /\ imageRef = FALSE
    /\ flyPc = "idle"
    /\ FlyIdle
    /\ mode = "sandbox" /\ runtime = "docker"
    /\ runtimes = [docker |-> FALSE, sandbox |-> TRUE, podman |-> FALSE]
    /\ runDocker = FALSE /\ runSandbox = TRUE
    /\ mainPc = "awaitB"
    /\ results = <<>>
    /\ imageExists = FALSE
    /\ dockerPc = "idle"
    /\ dockerResult = NoRunResult
    /\ dockerProc = NoProc
    /\ dockerStart = 0
    /\ sandboxes \in { {}, {SANDBOX_NAME}, {"cpm-demo-persistent-2"}, {"other"} }
    /\ sandboxPc = "ensure"
    /\ sandboxResult = NoRunResult
    /\ sandboxProc = NoProc
    /\ sandboxStart = 0
    /\ sbxCreds = NoCred
    /\ sbxOnboarded = FALSE

NextEnsure ==
    \/ SandboxEnsureReady
    \/ SandboxEnsureAgain

SpecEnsure == InitEnsure /\ [][NextEnsure]_vars

\* `node mode-docker.mjs [runtime]`, lines 116-122: runModeDocker on its own,
\* on any host.
InitDocker ==
    /\ HostInit(RunOffsets, FALSE)
    /\ TokenIdle
    /\ tokPc = "idle"
    /\ invocations = <<>>
    /\ app = FALSE /\ buildOpt = FALSE /\ imageRef = FALSE
    /\ flyPc = "idle"
    /\ FlyIdle
    /\ mode = "docker"
    /\ runtime \in {"docker", "podman"}
    /\ runtimes \in { [docker |-> a, sandbox |-> FALSE, podman |-> b] :
                        a, b \in BOOLEAN }
    /\ runDocker = TRUE /\ runSandbox = FALSE
    /\ mainPc = "idle"
    /\ results = <<>>
    /\ imageExists \in BOOLEAN
    /\ dockerPc = "start"
    /\ dockerResult = NoRunResult
    /\ dockerProc = NoProc
    /\ dockerStart = 0
    /\ sandboxes = {}
    /\ sandboxPc = "idle"
    /\ sandboxResult = NoRunResult
    /\ sandboxProc = NoProc
    /\ sandboxStart = 0
    /\ sbxCreds = NoCred
    /\ sbxOnboarded = FALSE

\* One run of a mode that resolves a token: runModeFly or runModeDocker, each
\* started on its own.
InitTokenModes == InitFly \/ InitDocker

NextTokenModes ==
    \/ FlyValidate
    \/ FlyBuild
    \/ FlyImageRef
    \/ DockerResolve
    \/ AutoRenewIfNeeded
    \/ ResolveToken
    \/ FlySubscribe
    \/ FlyLaunch
    \/ LogData
    \/ LaunchStdout
    \/ LaunchClose
    \/ LaunchError
    \/ WaitMatched
    \/ WaitTimeout
    \/ WaitInterrupted
    \/ FlyFinish
    \/ DockerEnsureImage
    \/ DockerSpawn
    \/ DockerClose
    \/ DockerError

SpecTokenModes == InitTokenModes /\ [][NextTokenModes]_vars

\* `node mode-sandbox.mjs`, lines 255-261: runModeSandbox on its own, on any
\* host.
InitSandbox ==
    /\ HostInit(RunOffsets \cup {-MsPerHour}, FALSE)
    /\ TokenIdle
    /\ tokPc = "idle"
    /\ invocations = <<>>
    /\ app = FALSE /\ buildOpt = FALSE /\ imageRef = FALSE
    /\ flyPc = "idle"
    /\ FlyIdle
    /\ mode = "sandbox" /\ runtime = "docker"
    /\ runtimes \in { [docker |-> FALSE, sandbox |-> a, podman |-> FALSE] :
                        a \in BOOLEAN }
    /\ runDocker = FALSE /\ runSandbox = TRUE
    /\ mainPc = "idle"
    /\ results = <<>>
    /\ imageExists = FALSE
    /\ dockerPc = "idle"
    /\ dockerResult = NoRunResult
    /\ dockerProc = NoProc
    /\ dockerStart = 0
    /\ sandboxes \in { {}, {SANDBOX_NAME}, {"cpm-demo-persistent-2"}, {"other"} }
    /\ (~runtimes["sandbox"] => sandboxes = {})
    /\ sandboxPc = "start"
    /\ sandboxResult = NoRunResult
    /\ sandboxProc = NoProc
    /\ sandboxStart = 0
    /\ sbxCreds = NoCred
    /\ sbxOnboarded = FALSE

NextSandbox ==
    \/ SandboxCheckAvailable
    \/ SandboxEnsureReady
    \/ SandboxSpawn
    \/ SandboxClose
    \/ SandboxError

SpecSandbox == InitSandbox /\ [][NextSandbox]_vars

(***************************************************************************)
(* push-token.mjs: its own resolveToken(), then pushToRemote().  The       *)
(* script is a process of its own; tokPc is its position ("push" before    *)
(* resolveToken(), "returned" after it, "pushed" after pushToRemote()),    *)
(* tokResult the record resolveToken() returned.                           *)
(***************************************************************************)
\* spawnSync('ssh', [host, 'bash', '-s'], { input: script }), line 108.
PushCmd == Cmd("push-token", "ssh bash -s")

\* Lines 52-53: hoursLeft = (...).toFixed(1); if (hoursLeft <= 0).  A
\* missing expiresAt gives "NaN", and "NaN" <= 0 is false.
pushExpiryExits(cred, t) ==
    cred.hasExpiry /\ toFixed1(cred.expiresAt - t) <= 0

\* resolveToken() of push-token.mjs, lines 33-74: off macOS the override or
\* exit; on macOS the Keychain with its expiry test, then the credentials
\* file, whose expiresAt only yields the printed hoursLeft.
pushResolveSteps ==
    LET k == Read("pushResolveToken", "keychain", keychain)
        f == Read("pushResolveToken", "file", credFile)
    IN  IF ~darwin
        THEN IF env # ""
             THEN [pc |-> "returned", why |-> "", res |-> Returned("env", env, NoCred),
                   reads |-> <<ReadEnv("pushResolveToken")>>]
             ELSE [pc |-> "exited", why |-> "not_macos", res |-> NoResult,
                   reads |-> <<ReadEnv("pushResolveToken")>>]
        ELSE IF keychain.accessToken # ""
        THEN IF pushExpiryExits(keychain, now)
             THEN [pc |-> "exited", why |-> "expired",
                   res |-> Rejected("keychain", keychain), reads |-> <<k>>]
             ELSE [pc |-> "returned", why |-> "",
                   res |-> Returned("keychain", keychain.accessToken, keychain),
                   reads |-> <<k>>]
        ELSE IF credFile.accessToken # ""
        THEN [pc |-> "returned", why |-> "",
              res |-> Returned("file", credFile.accessToken, credFile),
              reads |-> <<k, f>>]
        ELSE [pc |-> "exited", why |-> "no_token", res |-> NoResult,
              reads |-> <<k, f>>]

\* Line 134: const { token, hoursLeft, source } = resolveToken().
PushResolveToken ==
    /\ tokPc = "push"
    /\ LET r == pushResolveSteps
       IN  /\ tokPc' = r.pc
           /\ exitReason' = r.why
           /\ tokResult' = r.res
           /\ reads' = reads \o r.reads
    /\ UNCHANGED <<env, darwin, keychain, credFile, now, renewOutcome,
                   keychain0, credFile0>>
    /\ UNCHANGED callerVars

\* pushToRemote(host, token, hoursLeft), lines 80-124 and 137: the script
\* that writes the token line to the remote .env is run over ssh; a
\* non-zero status ends the process.
PushToRemote ==
    /\ tokPc = "returned"
    /\ invocations' = Append(invocations, PushCmd)
    /\ \E sshOk \in BOOLEAN :
         IF sshOk
         THEN tokPc' = "pushed" /\ exitReason' = exitReason
         ELSE tokPc' = "exited" /\ exitReason' = "ssh_failed"
    /\ UNCHANGED <<env, darwin, keychain, credFile, now, tokResult, reads,
                   renewOutcome, keychain0, credFile0>>
    /\ UNCHANGED <<flyVars, demoVars>>

\* `node push-token.mjs [ssh-host]` on any host.
InitPush ==
    /\ HostInit(ExpiryOffsets, TRUE)
    /\ TokenIdle
    /\ tokPc = "push"
    /\ invocations = <<>>
    /\ app = FALSE /\ buildOpt = FALSE /\ imageRef = FALSE
    /\ flyPc = "idle"
    /\ FlyIdle
    /\ DemoIdle

NextPush == PushResolveToken \/ PushToRemote

SpecPush == InitPush /\ [][NextPush]_vars

(***************************************************************************)
(* Properties of runModeFly, checked under SpecFly.                        *)
(***************************************************************************)

\* C1: when the wait ends because the 5-minute timer fired, the returned
\* result and the printed verdict report an unknown outcome: never a success
\* ('Mode C completed', exitCode 0) and never a failure.
C1_TimeoutReportedUnknown ==
    (flyPc = "returned" /\ waitEndedBy = "timer")
        => /\ ~(verdict = "completed" /\ flyResult.exitCode = 0)
           /\ verdict # "exited with code"

\* C2: the exit signal is raised only by a log line that itself contains
\* both the reference to the launched machine and the termination phrase,
\* however the lines are grouped into chunks.
C2_SignalOnlyByMarkerLine ==
    exitSignaled
        => \E line \in signalChunk : line.runner = machineId /\ line.phrase

\* C3: a chunk that names the launched machine and contains the termination
\* phrase, delivered at any time after the launch call was issued, signals
\* completion: such a run does not fall through to the 5-minute timeout.
C3_NoMarkerLost ==
    waitEndedBy = "timer" => ~markerSeen

\* C4: the log subscription is killed on every path by which runModeFly
\* finishes after opening it; no finished run leaves it open.
C4_SubscriptionClosedOnEveryExit ==
    flyPc \in {"returned", "rejected"} => logProc # "open"

\* C7: a launch call that exits non-zero without emitting a Machine ID aborts
\* the run: the wait for the exit signal is not entered and the timer is not
\* waited for.
C7_LaunchFailureAbortsImmediately ==
    (launch.kind = "failed" /\ machineId = "")
        => /\ flyPc \notin {"waiting", "flushing"}
           /\ waitEndedBy # "timer"

(***************************************************************************)
(* Properties of resolveToken, checked under SpecToken.                    *)
(***************************************************************************)

\* The store a returned or rejected credential was read from, now and
\* before the process started.
StoreOf(src) == IF src = "keychain" THEN keychain ELSE credFile
Store0Of(src) == IF src = "keychain" THEN keychain0 ELSE credFile0

\* C5: resolveToken never returns an access token read from the Keychain or
\* the credentials file whose expiresAt is at or before the time of the
\* return; a store credential that was past its expiry when the process
\* started is returned only after a successful refresh and a fresh check.
C5_NoExpiredStoreToken ==
    (tokPc = "returned" /\ tokResult.source \in {"keychain", "file"})
        => LET store == StoreOf(tokResult.source)
               store0 == Store0Of(tokResult.source)
           IN  /\ tokResult.token = store.accessToken
               /\ tokResult.hasExpiry = store.hasExpiry
               /\ tokResult.hasExpiry => (tokResult.expiresAt = store.expiresAt
                                          /\ tokResult.expiresAt > now)
               /\ (store0.accessToken # "" /\ store0.hasExpiry
                   /\ store0.expiresAt <= StartTime)
                      => (renewOutcome = "ok" /\ store # store0)

\* A Keychain credential past its expiry at the start was renewed, checked
\* again and returned.
C5_RenewedThenReturned ==
    /\ tokPc = "returned"
    /\ tokResult.source = "keychain"
    /\ renewOutcome = "ok"
    /\ keychain0.accessToken # ""
    /\ keychain0.hasExpiry
    /\ keychain0.expiresAt <= StartTime

\* The priority of a source, and the pass that consulted it: the expiry
\* lookup of the auto-renew step, then the selection.
SourceRank(src) == CASE src = "env" -> 1 [] src = "keychain" -> 2 [] OTHER -> 3
PassOf(fn) == IF fn = "resolveToken" THEN 2 ELSE 1

\* Each pass consults the sources in the order override, Keychain, file, and
\* the stores only when no override is set.
ReadsInOrder ==
    /\ \A i, j \in DOMAIN reads :
         i < j => \/ PassOf(reads[i].fn) < PassOf(reads[j].fn)
                  \/ /\ PassOf(reads[i].fn) = PassOf(reads[j].fn)
                     /\ SourceRank(reads[i].src) < SourceRank(reads[j].src)
    /\ \A i \in DOMAIN reads : reads[i].src # "env" => env = ""

\* The returned token is that of the highest-priority source that has one.
ReturnedFromHighest ==
    tokPc = "returned"
        => /\ tokResult.token # ""
           /\ tokResult.source =
                (IF env # "" THEN "env"
                 ELSE IF darwin /\ keychain.accessToken # "" THEN "keychain"
                 ELSE "file")
           /\ tokResult.token =
                (IF tokResult.source = "env" THEN env
                 ELSE StoreOf(tokResult.source).accessToken)

\* On macOS the read before a read of the file is the same pass's read of the
\* Keychain.
KeychainReadBefore(i) ==
    /\ i > 1
    /\ reads[i - 1].src = "keychain"
    /\ reads[i - 1].fn = reads[i].fn

\* C9 (as stated): resolveToken consults the sources in the order override,
\* Keychain, file; a lower-priority source is read only when every
\* higher-priority source yielded no access token; the returned token comes
\* from the highest-priority source that yields one.
C9_LowerReadOnlyWithoutToken ==
    renewOutcome # "none"
        => /\ ReadsInOrder
           /\ \A i \in DOMAIN reads :
                (reads[i].src = "file" /\ darwin)
                    => (KeychainReadBefore(i) /\ reads[i - 1].token = "")
           /\ ReturnedFromHighest

\* C9 (amended): as above, except that the expiry lookup of the auto-renew
\* step reads the file whenever the Keychain yielded no expiresAt, whether
\* or not it yielded an access token.
C9_OrderedFallback ==
    renewOutcome # "none"
        => /\ ReadsInOrder
           /\ \A i \in DOMAIN reads :
                (reads[i].src = "file" /\ darwin)
                    => /\ KeychainReadBefore(i)
                       /\ IF reads[i].fn = "resolveToken"
                          THEN reads[i - 1].token = ""
                          ELSE ~reads[i - 1].expiry
           /\ ReturnedFromHighest

\* The Keychain's token was returned after the expiry lookup had read the
\* file.
C9_FileReadForExpiry ==
    /\ tokPc = "returned"
    /\ tokResult.source = "keychain"
    /\ \E i \in DOMAIN reads : reads[i].src = "file"

\* C10: a store credential whose expiresAt is strictly later than the
\* current time, however little remains, passes the expiry check: the check
\* rejects only credentials whose expiresAt is at or before the current time.
C10_FutureExpiryAccepted ==
    exitReason = "expired" => tokResult.expiresAt <= now

(***************************************************************************)
(* Properties of a run of run-demo.mjs, checked under SpecDemo.            *)
(***************************************************************************)

\* No credential source yields a non-expired secret: no override, and each
\* store the host has is empty or holds a credential at or past its expiry.
Unusable(cred) ==
    cred.accessToken = "" \/ (cred.hasExpiry /\ cred.expiresAt <= now)
NoSourceYields ==
    /\ env = ""
    /\ darwin => Unusable(keychain)
    /\ Unusable(credFile)

\* The invocations that build, create, write into or run a backend.
BackendCmds ==
    { "build", "run", "sandbox run --name", "sandbox exec credentials",
      "sandbox exec onboarding", "sandbox run task" }

\* C6: when no credential source yields a non-expired secret, the run issues
\* no invocation of the backend: no image build and no container run in
\* Mode A, no sandbox creation, no exec and no task run in Mode B.
C6_NoBackendCallWithoutCredential ==
    NoSourceYields
        => \A i \in DOMAIN invocations : invocations[i].cmd \notin BackendCmds

\* Whether main called the mode's function, whether the process is over, and
\* the result records main holds for the mode.
Attempted(m) == IF m = "docker" THEN dockerPc # "idle" ELSE sandboxPc # "idle"
ProcessEnded == mainPc \in {"done", "exited"} \/ tokPc = "exited"
ResultsOf(m) == { i \in DOMAIN results : results[i].mode = m }

\* C8: every attempt of a mode ends with exactly one result record handed to
\* main, whatever the terminal outcome, credential-resolution failure
\* included.
C8_OneResultPerAttempt ==
    \A m \in {"docker", "sandbox"} :
        /\ Cardinality(ResultsOf(m)) <= 1
        /\ (ProcessEnded /\ Attempted(m)) => Cardinality(ResultsOf(m)) = 1

(***************************************************************************)
(* Further properties of resolveToken, checked under SpecToken.            *)
(***************************************************************************)

\* A credential at or past its expiry.
PastExpiry(cred) == cred.hasExpiry /\ cred.expiresAt <= now

\* C11: a source that yields an access token past its expiry is not skipped:
\* the selection stops at it with the 'token expired' failure and reads no
\* further source; the 'no token found' failure occurs only when no source
\* yielded any access token.
C11_ExpiredNotSkipped ==
    /\ \A i \in DOMAIN reads :
         ( /\ reads[i].fn = "resolveToken"
           /\ reads[i].src # "env"
           /\ reads[i].token # ""
           /\ PastExpiry(StoreOf(reads[i].src)) )
             => /\ tokPc = "exited"
                /\ exitReason = "expired"
                /\ tokResult.source = reads[i].src
                /\ i = Len(reads)
    /\ exitReason = "no_token" => \A i \in DOMAIN reads : reads[i].token = ""
    /\ exitReason = "expired" => StoreOf(tokResult.source).accessToken # ""

\* The Keychain's expired token ended the resolution although the
\* credentials file held an unexpired one.
C11_ExpiredKeychainStops ==
    /\ exitReason = "expired"
    /\ tokResult.source = "keychain"
    /\ PastExpiry(keychain)
    /\ credFile.accessToken # ""
    /\ ~PastExpiry(credFile)

\* Whether the refresh action `claude -p "hi"` was invoked, and how often.
RenewCalls == { i \in DOMAIN invocations : invocations[i] = RenewCmd }
RenewInvoked == RenewCalls # {}

\* C12: with the override CLAUDE_CODE_OAUTH_TOKEN set, the refresh action is
\* never invoked during resolveToken, whatever expiry the Keychain or the
\* credentials file records; no store is read and no time is spent.
C12_NoRefreshWithOverride ==
    env # ""
        => /\ ~RenewInvoked
           /\ renewOutcome \in {"none", "skipped_env"}
           /\ \A i \in DOMAIN reads : reads[i].src = "env"
           /\ now = StartTime

\* The override was returned, without a refresh, on a host whose stored
\* credentials are all past their expiry.
C12_OverrideOverExpiredStores ==
    /\ tokPc = "returned"
    /\ tokResult.source = "env"
    /\ renewOutcome = "skipped_env"
    /\ credFile.accessToken # "" /\ PastExpiry(credFile)
    /\ darwin /\ keychain.accessToken # "" /\ PastExpiry(keychain)

\* The expiresAt the expiry lookup finds on the host as the process started:
\* the Keychain's on macOS when it has one, otherwise the credentials
\* file's; Remaining0 is undefined when FoundExpiry0 is false.
FoundExpiry0 ==
    (darwin /\ truthyExpiry(keychain0)) \/ truthyExpiry(credFile0)
Remaining0 ==
    (IF darwin /\ truthyExpiry(keychain0)
     THEN keychain0.expiresAt ELSE credFile0.expiresAt) - StartTime
TwoHours == 2 * MsPerHour

\* The refresh is invoked at most once, and the final source check has not
\* begun while the auto-renew step has not handed over.
RefreshOnceBeforeSelection ==
    /\ Cardinality(RenewCalls) <= 1
    /\ tokPc \in {"autoRenew", "resolve"}
         => \A i \in DOMAIN reads : reads[i].fn # "resolveToken"
    /\ tokPc = "autoRenew" => ~RenewInvoked

IssuedInStep ==
    { invocations'[i] : i \in (Len(invocations) + 1)..Len(invocations') }
CreateCmd == Cmd("sandbox", "sandbox run --name")

TaskCmd == Cmd("sandbox", "sandbox run task")
SetupErrors ==
    { "Docker Sandbox not available", "Failed to create sandbox",
      "No Claude credentials found", "Failed to inject credentials",
      "Failed to write ~/.claude.json" }

\* The commands before position i are the end of a successful setup: the
\* listing, the creation when the listing did not show the sandbox, the write
\* of the credentials file, then the write of the onboarding marker.
SetupBefore(i) ==
    /\ i >= 4
    /\ invocations[i - 1] = Cmd("sandbox", "sandbox exec onboarding")
    /\ invocations[i - 2] = Cmd("sandbox", "sandbox exec credentials")
    /\ \/ invocations[i - 3] = Cmd("sandbox", "sandbox ls")
       \/ /\ i >= 5
          /\ invocations[i - 3] = CreateCmd
          /\ invocations[i - 4] = Cmd("sandbox", "sandbox ls")

\* C15: the task launch is issued only after, in the same run, the sandbox
\* was ensured to exist and both injection writes (credentials file, then
\* onboarding marker) succeeded; when the availability check, the creation
\* or an injection write fails, the task is never launched and the run
\* returns exitCode 1 with an error.
C15_TaskOnlyAfterSetup ==
    /\ \A i \in DOMAIN invocations :
         invocations[i] = TaskCmd
            => /\ SetupBefore(i)
               /\ SANDBOX_NAME \in sandboxes
               /\ sbxCreds.accessToken # ""
               /\ sbxOnboarded
    /\ sandboxResult.error \in SetupErrors
         => /\ sandboxPc = "returned"
            /\ sandboxResult.exitCode = 1
            /\ \A i \in DOMAIN invocations : invocations[i] # TaskCmd
    /\ (sandboxPc = "returned" /\ sandboxResult.error = "")
         => \E i \in DOMAIN invocations : invocations[i] = TaskCmd

\* The task was launched in a run that created the sandbox and wrote both
\* files.
C15_LaunchedAfterCreation ==
    /\ sandboxPc = "running"
    /\ Len(invocations) = 6
    /\ invocations[3] = CreateCmd
    /\ invocations[6] = TaskCmd

(***************************************************************************)
(* Further properties of runModeFly, checked under SpecFly.                *)
(***************************************************************************)

LogsCmd == Cmd("fly", "fly logs")
LaunchCmd == Cmd("fly", "fly machine run")

\* C16: in every run that reaches the launch, the log subscription
\* (`fly logs`) was opened before the launch call (`fly machine run`) was
\* issued, and it is open while the launch call runs.
C16_SubscribeBeforeLaunch ==
    /\ \A i \in DOMAIN invocations :
         invocations[i] = LaunchCmd
            => \E j \in 1..(i - 1) : invocations[j] = LogsCmd
    /\ flyPc = "launching" => logProc = "open"

\* The launch call is running, issued right after the subscription.
C16_LaunchIssued ==
    /\ flyPc = "launching"
    /\ Len(invocations) >= 2
    /\ invocations[Len(invocations)] = LaunchCmd
    /\ invocations[Len(invocations) - 1] = LogsCmd

\* What a run of runModeFly has come to, apart from the bookkeeping of the
\* chunks it received.
flyOutcome ==
    <<exitSignaled, signalChunk, flyPc, logProc, machineId, resultCode,
      waitEndedBy, startTime, flyResult, verdict, now, invocations>>

\* C17: completion of the wait is signaled exactly once per run.  A chunk
\* that arrives after the first matching chunk, matching or not, leaves the
\* run's state and outcome unchanged, and the wait never ends a second time.
C17_SignalOnce ==
    [][ /\ (exitSignaled /\ chunksSeen' # chunksSeen) => UNCHANGED flyOutcome
        /\ exitSignaled => exitSignaled'
        /\ waitEndedBy # "none" => waitEndedBy' = waitEndedBy ]_vars

\* A run that received two matching chunks and returned, its wait ended by
\* the marker.
C17_TwoMatchesOneCompletion ==
    /\ signalCount = 2
    /\ flyPc = "returned"
    /\ waitEndedBy = "marker"

\* C18: a user interrupt received while runModeFly waits for the exit signal
\* closes the log subscription and yields an outcome reported as
\* 'cancelled', distinguishable from 'timed out' and from 'completed'.
C18_InterruptReportedCancelled ==
    flyPc = "interrupted"
        => /\ logProc = "killed"
           /\ verdict = "cancelled"
           /\ flyResult # NoFlyResult

(***************************************************************************)
(* Properties of the elapsed time, checked under SpecTokenModes.           *)
(***************************************************************************)

\* C19: the elapsed time of a result runs from a start instant taken after
\* the credential resolution, at the start of the launch call: it holds
\* neither the renewal nor the connect delay.  For runModeFly it runs to an
\* end instant taken after the wait for the exit marker ended (by the marker
\* or by the timer) and the log flush, never to the return of the launch
\* call; for runModeDocker it is the running time of the container.
C19_ElapsedFromLaunch ==
    /\ (flyPc = "returned" /\ waitEndedBy # "none")
          => /\ startTime >= StartTime + ConnectDelayMs
             /\ flyResult.elapsed * 100 = now - startTime
             /\ now - startTime =
                  (IF waitEndedBy = "timer" THEN WaitTimeoutMs ELSE 0) + FlushDelayMs
    /\ (flyPc = "returned" /\ waitEndedBy = "none")
          => flyResult.elapsed = NoElapsed
    /\ dockerPc = "returned"
          => /\ dockerResult.elapsed * 100 = dockerProc.ms
             /\ dockerProc.ms = now - dockerStart

\* A run of runModeFly that spent 30 s renewing the token, then timed out:
\* its elapsed time holds the wait and the flush alone.
C19_RenewalNotCounted ==
    /\ flyPc = "returned"
    /\ waitEndedBy = "timer"
    /\ RenewInvoked
    /\ now - StartTime = RenewTimeoutMs + ConnectDelayMs + flyResult.elapsed * 100

(***************************************************************************)
(* Properties of the results of Mode A and Mode B, checked under SpecDemo. *)
(***************************************************************************)
Thrown(m) == [mode |-> m, exitCode |-> 0 - 1, error |-> "thrown"]

\* The record main holds for mode m, if any, is r.
RecordedAs(m, r) ==
    \A i \in DOMAIN results : results[i].mode = m => results[i] = r

\* C20: for runModeDocker and runModeSandbox a result of a launched process
\* exists only once that process has exited, and it carries that process's
\* exit code, zero or not, with no error; a process that could not be spawned
\* gives no result but a thrown error, which main records as exitCode -1
\* with an error message, never as the exit code of a workload.
C20_ResultCarriesExitCode ==
    /\ dockerResult # NoRunResult
          => /\ dockerPc = "returned"
             /\ dockerProc.kind = "exited"
             /\ now >= dockerStart + dockerProc.ms
             /\ dockerResult.exitCode = dockerProc.code
             /\ dockerResult.error = ""
             /\ RecordedAs("docker", dockerResult)
    /\ (sandboxResult # NoRunResult /\ sandboxProc # NoProc)
          => /\ sandboxPc = "returned"
             /\ sandboxProc.kind = "exited"
             /\ now >= sandboxStart + sandboxProc.ms
             /\ sandboxResult.exitCode = sandboxProc.code
             /\ sandboxResult.error = ""
             /\ RecordedAs("sandbox", sandboxResult)
    /\ dockerProc.kind = "error"
          => /\ dockerResult = NoRunResult
             /\ dockerPc \in {"running", "rejected"}
             /\ RecordedAs("docker", Thrown("docker"))
    /\ sandboxProc.kind = "error"
          => /\ sandboxResult = NoRunResult
             /\ sandboxPc \in {"running", "rejected"}
             /\ RecordedAs("sandbox", Thrown("sandbox"))

\* Both modes ran: the container exited with code 1 and main holds a normal
\* result with exitCode 1; the sandbox task could not be spawned and main
\* holds exitCode -1 with an error.
C20_NonZeroExitAndSpawnFailure ==
    /\ mainPc = "done"
    /\ Len(results) = 2
    /\ dockerProc.kind = "exited" /\ dockerProc.code = 1
    /\ results[1] = dockerResult /\ results[1].exitCode = 1
    /\ sandboxProc.kind = "error"
    /\ results[2] = Thrown("sandbox")

(***************************************************************************)
(* Properties of the output of runModeFly, checked under SpecFly.          *)
(***************************************************************************)

\* C21: the output of Mode C is filtered to the current machine: a log chunk
\* that does not hold `runner[<id>]` of the launched machine is never
\* written to the user's output.
C21_OutputFilteredToMachine ==
    stdoutChunk # NoChunk => includesRunner(stdoutChunk, LaunchedId)

(***************************************************************************)
(* Properties of the injected credentials, checked under SpecSandbox.      *)
(***************************************************************************)

\* C22: the credentials blob injected into the persistent sandbox before a
\* task run is never one whose expiresAt is in the past: whenever
\* runModeSandbox has launched the task, the blob written to
\* ~/.claude/.credentials.json inside the sandbox was unexpired when it was
\* read from the host.
C22_InjectedCredentialUnexpired ==
    sandboxProc # NoProc
        => ~(sbxCreds.hasExpiry /\ sbxCreds.expiresAt < sandboxStart)

(***************************************************************************)
(* Properties of the renewal's outcome, checked under SpecToken.           *)
(***************************************************************************)

\* C23: when the auto-renew command fails, resolveToken aborts if the stored
\* token was already expired, and otherwise goes on with the stored token
\* as long as it is still valid: it is then rejected as expired only when
\* its expiresAt is not later than the current time.  When the command
\* succeeds, the token returned is the one the store holds after the
\* renewal, and it has passed the expiry check.
C23_RenewalOutcomeHandled ==
    /\ (renewOutcome = "failed" /\ tokPc \in {"returned", "exited"})
          => IF Remaining0 <= 0
             THEN tokPc = "exited" /\ exitReason = "renew_failed"
             ELSE /\ exitReason # "renew_failed"
                  /\ exitReason = "expired" => tokResult.expiresAt <= now
                  /\ (tokPc = "returned"
                        => tokResult.token = Store0Of(tokResult.source).accessToken)
    /\ (renewOutcome = "ok" /\ tokPc = "returned")
          => /\ tokResult.token = StoreOf(tokResult.source).accessToken
             /\ tokResult.hasExpiry
                  => /\ tokResult.expiresAt = StoreOf(tokResult.source).expiresAt
                     /\ tokResult.expiresAt > now

(***************************************************************************)
(* Termination of runModeFly, checked under SpecFlyRun.                    *)
(***************************************************************************)

\* C24: once the launch call has closed, runModeFly always terminates,
\* whatever the log stream delivers: the wait ends by the marker or, at the
\* latest, when the 5-minute timer fires, the subscription is killed after
\* the 2 s flush, and a result is returned; the wait and the flush together
\* last no longer than the two timers.
C24_WaitAlwaysEnds ==
    /\ [](flyPc \in {"waiting", "flushing"} => logProc = "open")
    /\ []((flyPc = "returned" /\ waitEndedBy # "none")
            => /\ logProc = "killed"
               /\ flyResult = FlyReturn(resultCode, flyResult.elapsed)
               /\ now - startTime <= WaitTimeoutMs + FlushDelayMs)
    /\ (flyPc = "waiting") ~> (flyPc = "returned" /\ waitEndedBy # "none")

\* The log stream delivered nothing at all; the timer ended the wait, the
\* subscription was killed and the result returned.
C24_SilentStreamTimedOut ==
    /\ flyPc = "returned"
    /\ waitEndedBy = "timer"
    /\ chunksSeen = 0
    /\ logProc = "killed"
    /\ flyResult.mode = "fly"

(***************************************************************************)
(* Properties of the order of the two modes, checked under SpecDemo.       *)
(***************************************************************************)
CmdsOf(m) == { i \in DOMAIN invocations : invocations[i].by = m }

\* C25: when main runs both modes they run strictly one after the other: no
\* command of Mode B (the version check, the existence check, the creation,
\* the injection, the task) is issued before runModeDocker has settled, its
\* container process, if one started, has exited, and main has recorded
\* Mode A's result; and the results are recorded in the order A, B.
C25_ModesRunSequentially ==
    /\ (runDocker /\ mainPc # "start" /\ (CmdsOf("sandbox") # {} \/ sandboxPc # "idle"))
          => /\ dockerPc \in {"returned", "rejected"}
             /\ dockerProc.kind = "exited" => now >= dockerStart + dockerProc.ms
             /\ Len(results) >= 1
             /\ results[1].mode = "docker"
             /\ \A i \in CmdsOf("sandbox") :
                  \A j \in CmdsOf("docker") \cup CmdsOf("resolveToken") : j < i
    /\ \A i, j \in DOMAIN results :
          (results[i].mode = "docker" /\ results[j].mode = "sandbox") => i < j

\* Both modes ran to their end: the container ran and exited, then the
\* sandbox commands were issued, and main holds A's result before B's.
C25_BothRanInOrder ==
    /\ mode = "both"
    /\ mainPc = "done"
    /\ dockerProc.kind = "exited"
    /\ sandboxProc.kind = "exited"
    /\ Len(results) = 2
    /\ results[1].mode = "docker" /\ results[2].mode = "sandbox"
    /\ CmdsOf("docker") # {} /\ CmdsOf("sandbox") # {}

(***************************************************************************)
(* Properties of the validation in runModeFly, checked under SpecFly.      *)
(***************************************************************************)
Issued(c) == \E i \in DOMAIN invocations : invocations[i] = c

\* C26: without an app name, or without a saved image ref, runModeFly goes
\* no further than its validation: when it ends it has returned
\* {mode: 'fly', exitCode: 1}, and it has resolved no token (no source read,
\* no renewal), opened no log subscription and launched no machine.  A
\* machine launch is issued only with an app name, an image ref and a token
\* returned by resolveToken().
C26_ValidationBeforeAnyEffect ==
    /\ (~app \/ ~imageRef)
          => /\ flyPc \in {"start", "build", "imageRef", "returned", "rejected"}
             /\ flyPc = "returned" => flyResult = FlyReturn(1, NoElapsed)
             /\ flyPc = "rejected" => (app /\ buildOpt)
             /\ tokPc = "idle" /\ reads = <<>> /\ tokResult = NoResult
             /\ logProc = "none"
             /\ ~Issued(RenewCmd) /\ ~Issued(LogsCmd) /\ ~Issued(LaunchCmd)
    /\ Issued(LaunchCmd)
          => /\ app /\ imageRef
             /\ tokPc = "returned" /\ tokResult.token # ""

\* An app name is configured but no image ref is saved: the run has ended
\* with exitCode 1.
C26_NoImageRefReturned ==
    /\ app /\ ~imageRef
    /\ flyPc = "returned"
    /\ flyResult.exitCode = 1

(***************************************************************************)
(* Properties of main's handling of failures, checked under SpecDemo.      *)
(***************************************************************************)

\* C27: when main runs both modes, a failure of Mode A, a failure to resolve
\* a credential included, is recorded as a Mode A result with a non-zero
\* exit code and does not keep Mode B from being attempted: in every run
\* that selected Mode B and has ended, Mode B was attempted.
C27_ModeAFailureDoesNotStopModeB ==
    (ProcessEnded /\ runDocker /\ runSandbox /\ Attempted("docker"))
        => /\ Attempted("sandbox")
           /\ \E i \in DOMAIN results :
                /\ results[i].mode = "docker"
                /\ (dockerPc # "returned" \/ dockerResult.exitCode # 0)
                      => results[i].exitCode # 0

(***************************************************************************)
(* Properties of main's choice of modes, checked under SpecDemo.           *)
(***************************************************************************)

\* C28: whatever --mode, --runtime and the detected runtimes are, main never
\* calls runModeDocker with a container runtime that detectRuntimes reported
\* as unavailable and never calls runModeSandbox when Docker Sandbox was
\* reported unavailable; when nothing runnable remains it exits instead.
C28_OnlyAvailableRuntimesInvoked ==
    /\ Attempted("docker") => runtimes[runtime]
    /\ Attempted("sandbox") => runtimes["sandbox"]
    /\ (mainPc # "start" /\ ~(runDocker /\ runtimes[runtime])
                         /\ ~(runSandbox /\ runtimes["sandbox"]))
          => mainPc = "exited"

(***************************************************************************)
(* Properties of the existence test, checked under SpecEnsure.             *)
(***************************************************************************)

\* C29: ensureSandboxReady issues the creation command if and only if no
\* sandbox named exactly cpm-demo-persistent exists: other sandboxes,
\* whatever their names, never suppress the creation, and an existing
\* cpm-demo-persistent never triggers one.
C29_CreateIffNotExactlyNamed ==
    [][ sandboxPc = "ensure"
          => (CreateCmd \in IssuedInStep <=> SANDBOX_NAME \notin sandboxes) ]_vars

(***************************************************************************)
(* Properties of push-token.mjs, checked under SpecPush.                   *)
(***************************************************************************)

\* C30: push-token never writes an expired token to the remote .env:
\* whenever pushToRemote has been called with a token read from the
\* Keychain or from ~/.claude/.credentials.json, the expiresAt stored with
\* that token is later than the current time.
C30_PushedTokenUnexpired ==
    (Issued(PushCmd) /\ tokResult.source \in {"keychain", "file"})
        => (tokResult.hasExpiry => tokResult.expiresAt > now)

====
